---- MODULE Spec2Model ----
(***************************************************************************)
(* Start-up of the ordering service (orderer/main.go): main, launchSolo,   *)
(* launchKafka, retrieveConfiguration and bootstrapConfigManager, and the  *)
(* replicated-log consenter / ledger hash chain the wire format            *)
(* (protos/fabric_next.proto, Block2) is written for.                      *)
(***************************************************************************)
EXTENDS Integers, Sequences, FiniteSets

VARIABLES pc, conf, genesisBlock, rawledger, ledgerKind, closed, it,
          lastConfigTx, reads, scanResult, failedRead,
          policyManager, configHandlerMap, remaining, configManager,
          consenter, serving, accepted, events,
          log, offset, batch, ledgers, published

ovars == <<pc, conf, genesisBlock, rawledger, ledgerKind, closed, it,
           lastConfigTx, reads, scanResult, failedRead,
           policyManager, configHandlerMap, remaining, configManager,
           consenter, serving, accepted, events>>

kvars == <<log, offset, batch, ledgers, published>>

vars == <<ovars, kvars>>

(***************************************************************************)
(* Bounds of the model                                                     *)
(***************************************************************************)
\* longest ledger the bootstrap scan is run on (genesis block included)
MaxBlocks == 5
\* envelopes submitted through Broadcast once the server is serving
MaxEnvelopes == 2
\* entries of the shared log in the replicated-log model
MaxLog == 4
\* envelopes one producer submits in the replicated-log model
MaxPublish == 2
\* batch size (maxMessageCount) of the batch cutter
MaxMessageCount == 2

(***************************************************************************)
(* Data                                                                    *)
(***************************************************************************)
Nil == "nil"

\* payloads of ab.BroadcastMessage.Data: two serialized configuration
\* envelopes, a transaction whose bytes are no well-formed encoding of a
\* ConfigurationEnvelope, and a transaction whose bytes are one (an empty
\* payload, or an encoded message whose fields the envelope does not know)
DataValues == {"cfgA", "cfgB", "tx", "txpb"}

\* the payloads that were submitted as configuration envelopes
ConfigData == {"cfgA", "cfgB"}

\* proto.Unmarshal(block.Messages[0].Data, maybeConfigTx)
Unmarshal(data) ==
    CASE data = "cfgA" -> [err |-> FALSE, msg |-> "A"]
      [] data = "cfgB" -> [err |-> FALSE, msg |-> "B"]
      [] data = "txpb" -> [err |-> FALSE, msg |-> "T"]
      [] OTHER         -> [err |-> TRUE,  msg |-> Nil]

Block(msgs) == [Messages |-> msgs]

Msg(d) == [Data |-> d]

\* the blocks a ledger may hold: empty, single configuration, single
\* transaction, and a configuration sharing its block with a transaction
BlockValues ==
    { Block(<<>>), Block(<<Msg("cfgA")>>), Block(<<Msg("cfgB")>>),
      Block(<<Msg("tx")>>), Block(<<Msg("txpb")>>),
      Block(<<Msg("cfgA"), Msg("tx")>>) }

SeqsUpTo(S, n) == UNION { [1..k -> S] : k \in 0..n }

\* ab.Status values other than SUCCESS
ErrorStatuses == {"NOT_FOUND", "SERVICE_UNAVAILABLE"}

\* ab.Configuration_ConfigurationType_name
ConfigurationType == {"Policy", "Chain", "Orderer"}

OrdererTypes == {"solo", "kafka", "other"}
GenesisMethods == {"static", "other"}
LedgerTypes == {"file", "ram", ""}
Locations == {"", "/var/ledger"}

Envelopes == [Data : {"tx"}, Signature : {"good", "bad"}]

\* xxxCryptoHelper.VerifySignature: considers all signatures to be valid
VerifySignature(msg, ids, sigs) == TRUE

EmptyMap == [t \in {} |-> Nil]

NoManager == [built |-> FALSE, bootstrap |-> Nil, policySource |-> Nil,
              handlers |-> EmptyMap]

NoConsenter == [kind |-> "none", configManager |-> Nil]

\* retrieveConfiguration has not returned
NoResult == [returned |-> FALSE, value |-> Nil, ready |-> FALSE]

(***************************************************************************)
(* Initial state: main() has loaded the configuration                      *)
(***************************************************************************)
KInitIdle ==
    /\ log = <<>>
    /\ offset = [p \in {1, 2} |-> 0]
    /\ batch = [p \in {1, 2} |-> <<>>]
    /\ ledgers = [p \in {1, 2} |-> <<[PreviousBlockHash |-> 0, Transactions |-> <<>>]>>]
    /\ published = [p \in {1, 2} |-> 0]

OInit ==
    /\ pc = "main"
    /\ conf \in [OrdererType : OrdererTypes, GenesisMethod : GenesisMethods,
                 LedgerType : LedgerTypes, Location : Locations]
    /\ genesisBlock = Block(<<>>)
    /\ rawledger = <<>>
    /\ ledgerKind = "none"
    /\ closed = FALSE
    /\ it = 0
    /\ lastConfigTx = Nil
    /\ reads = <<>>
    /\ scanResult = NoResult
    /\ failedRead = Nil
    /\ policyManager = Nil
    /\ configHandlerMap = EmptyMap
    /\ remaining = {}
    /\ configManager = NoManager
    /\ consenter = NoConsenter
    /\ serving = FALSE
    /\ accepted = <<>>
    /\ events = <<>>

Init == OInit /\ KInitIdle

\* an uncaught panic ends the process
Panic ==
    /\ pc' = "panicked"
    /\ serving' = FALSE

(***************************************************************************)
(* main                                                                    *)
(***************************************************************************)
Main ==
    /\ pc = "main"
    /\ \/ /\ conf.OrdererType = "solo"
          /\ pc' = "solo_listen"
          /\ UNCHANGED serving
       \/ /\ conf.OrdererType = "kafka"
          /\ pc' = "kafka_new"
          /\ UNCHANGED serving
       \/ /\ conf.OrdererType \notin {"solo", "kafka"}
          /\ Panic
    /\ UNCHANGED <<conf, genesisBlock, rawledger, ledgerKind, closed, it,
                   lastConfigTx, reads, scanResult, failedRead,
                   policyManager, configHandlerMap, remaining,
                   configManager, consenter, accepted, events>>
    /\ UNCHANGED kvars

(***************************************************************************)
(* launchSolo                                                              *)
(***************************************************************************)
\* net.Listen; on error the function prints and returns
SoloListen ==
    /\ pc = "solo_listen"
    /\ \/ /\ pc' = "solo_bootstrapper"
          /\ events' = Append(events, "listen")
       \/ /\ pc' = "returned"
          /\ UNCHANGED events
    /\ UNCHANGED <<conf, genesisBlock, rawledger, ledgerKind, closed, it,
                   lastConfigTx, reads, scanResult, failedRead,
                   policyManager, configHandlerMap, remaining,
                   configManager, consenter, serving, accepted>>
    /\ UNCHANGED kvars

\* switch conf.General.GenesisMethod
SoloSelectBootstrapper ==
    /\ pc = "solo_bootstrapper"
    /\ \/ /\ conf.GenesisMethod = "static"
          /\ pc' = "solo_genesis"
          /\ UNCHANGED serving
       \/ /\ conf.GenesisMethod # "static"
          /\ Panic
    /\ UNCHANGED <<conf, genesisBlock, rawledger, ledgerKind, closed, it,
                   lastConfigTx, reads, scanResult, failedRead,
                   policyManager, configHandlerMap, remaining,
                   configManager, consenter, accepted, events>>
    /\ UNCHANGED kvars

\* bootstrapper.GenesisBlock()
SoloGenesisBlock ==
    /\ pc = "solo_genesis"
    /\ \/ /\ \E b \in BlockValues : genesisBlock' = b
          /\ pc' = "solo_ledger"
          /\ events' = Append(events, "genesis")
          /\ UNCHANGED serving
       \/ /\ Panic
          /\ UNCHANGED <<genesisBlock, events>>
    /\ UNCHANGED <<conf, rawledger, ledgerKind, closed, it,
                   lastConfigTx, reads, scanResult, failedRead,
                   policyManager, configHandlerMap, remaining,
                   configManager, consenter, accepted>>
    /\ UNCHANGED kvars

\* ledgerType "file", no location configured: ioutil.TempDir, then
\* fileledger.New on the fresh directory
SoloFileLedgerTemp ==
    /\ pc = "solo_ledger"
    /\ conf.LedgerType = "file"
    /\ conf.Location = ""
    /\ \/ /\ rawledger' = <<genesisBlock>>
          /\ ledgerKind' = "file"
          /\ events' = Append(events, "ledger:file")
          /\ pc' = "retrieve"
          /\ UNCHANGED serving
       \/ /\ Panic
          /\ UNCHANGED <<rawledger, ledgerKind, events>>
    /\ UNCHANGED <<conf, genesisBlock, closed, it,
                   lastConfigTx, reads, scanResult, failedRead,
                   policyManager, configHandlerMap, remaining,
                   configManager, consenter, accepted>>
    /\ UNCHANGED kvars

\* fileledger.New(location, genesisBlock): the blocks persisted at the
\* location follow the genesis block
FileLedgerNew(genesis, persisted) == <<genesis>> \o persisted

\* ledgerType "file" with a configured location
SoloFileLedger ==
    /\ pc = "solo_ledger"
    /\ conf.LedgerType = "file"
    /\ conf.Location # ""
    /\ \E persisted \in SeqsUpTo(BlockValues, MaxBlocks - 1) :
           rawledger' = FileLedgerNew(genesisBlock, persisted)
    /\ ledgerKind' = "file"
    /\ events' = Append(events, "ledger:file")
    /\ pc' = "retrieve"
    /\ UNCHANGED <<conf, genesisBlock, closed, it,
                   lastConfigTx, reads, scanResult, failedRead,
                   policyManager, configHandlerMap, remaining,
                   configManager, consenter, serving, accepted>>
    /\ UNCHANGED kvars

\* case "ram": fallthrough; default: ramledger.New(historySize, genesisBlock)
SoloRamLedger ==
    /\ pc = "solo_ledger"
    /\ conf.LedgerType # "file"
    /\ rawledger' = <<genesisBlock>>
    /\ ledgerKind' = "ram"
    /\ events' = Append(events, "ledger:ram")
    /\ pc' = "retrieve"
    /\ UNCHANGED <<conf, genesisBlock, closed, it,
                   lastConfigTx, reads, scanResult, failedRead,
                   policyManager, configHandlerMap, remaining,
                   configManager, consenter, serving, accepted>>
    /\ UNCHANGED kvars

(***************************************************************************)
(* retrieveConfiguration                                                   *)
(***************************************************************************)
\* var lastConfigTx; it, _ := rl.Iterator(ab.SeekInfo_OLDEST, 0)
ScanBegin ==
    /\ pc = "retrieve"
    /\ it' = 0
    /\ lastConfigTx' = Nil
    /\ pc' = "scan"
    /\ UNCHANGED <<conf, genesisBlock, rawledger, ledgerKind, closed,
                   reads, scanResult, failedRead,
                   policyManager, configHandlerMap, remaining,
                   configManager, consenter, serving, accepted, events>>
    /\ UNCHANGED kvars

\* it.ReadyChan(): a next block is available or the store is closed
Ready == it < Len(rawledger) \/ closed

\* the body of the ready case once Next succeeded (lines 84-95)
TrackConfigAnyLen(last, block) ==
    IF Len(block.Messages) = 0 THEN last
    ELSE LET r == Unmarshal(block.Messages[1].Data)
         IN  IF r.err THEN last ELSE r.msg

TrackConfig(last, block) ==
    IF Len(block.Messages) # 1 THEN last
    ELSE LET r == Unmarshal(block.Messages[1].Data)
         IN  IF r.err THEN last ELSE r.msg

\* case <-it.ReadyChan(): Next returns SUCCESS
ScanNext ==
    /\ pc = "scan"
    /\ Ready
    /\ ~closed
    /\ it' = it + 1
    /\ reads' = Append(reads, it + 1)
    /\ lastConfigTx' = TrackConfig(lastConfigTx, rawledger[it + 1])
    /\ UNCHANGED <<pc, conf, genesisBlock, rawledger, ledgerKind, closed,
                   scanResult, failedRead,
                   policyManager, configHandlerMap, remaining,
                   configManager, consenter, serving, accepted, events>>
    /\ UNCHANGED kvars

ScanFailReturnsPartial ==
    /\ pc = "scan"
    /\ Ready
    /\ \E status \in ErrorStatuses : failedRead' = status
    /\ pc' = "solo_check"
    /\ UNCHANGED <<conf, genesisBlock, rawledger, ledgerKind, closed, it,
                   lastConfigTx, reads, scanResult, serving,
                   policyManager, configHandlerMap, remaining,
                   configManager, consenter, accepted, events>>
    /\ UNCHANGED kvars

\* case <-it.ReadyChan(): Next returns a status other than SUCCESS
ScanFail ==
    /\ pc = "scan"
    /\ Ready
    /\ \E status \in ErrorStatuses : failedRead' = status
    /\ Panic
    /\ UNCHANGED <<conf, genesisBlock, rawledger, ledgerKind, closed, it,
                   lastConfigTx, reads, scanResult,
                   policyManager, configHandlerMap, remaining,
                   configManager, consenter, accepted, events>>
    /\ UNCHANGED kvars

ScanReturnEarly ==
    /\ pc = "scan"
    /\ ~Ready \/ lastConfigTx # Nil
    /\ scanResult' = [returned |-> TRUE, value |-> lastConfigTx, ready |-> Ready]
    /\ pc' = "solo_check"
    /\ UNCHANGED <<conf, genesisBlock, rawledger, ledgerKind, closed, it,
                   lastConfigTx, reads, failedRead,
                   policyManager, configHandlerMap, remaining,
                   configManager, consenter, serving, accepted, events>>
    /\ UNCHANGED kvars

\* default: return lastConfigTx
ScanReturn ==
    /\ pc = "scan"
    /\ ~Ready
    /\ scanResult' = [returned |-> TRUE, value |-> lastConfigTx, ready |-> Ready]
    /\ pc' = "solo_check"
    /\ UNCHANGED <<conf, genesisBlock, rawledger, ledgerKind, closed, it,
                   lastConfigTx, reads, failedRead,
                   policyManager, configHandlerMap, remaining,
                   configManager, consenter, serving, accepted, events>>
    /\ UNCHANGED kvars

\* the ledger store is torn down while the scan runs
StoreTeardown ==
    /\ pc = "scan"
    /\ ~closed
    /\ closed' = TRUE
    /\ UNCHANGED <<pc, conf, genesisBlock, rawledger, ledgerKind, it,
                   lastConfigTx, reads, scanResult, failedRead,
                   policyManager, configHandlerMap, remaining,
                   configManager, consenter, serving, accepted, events>>
    /\ UNCHANGED kvars

SoloCheckConfigNoPanic ==
    /\ pc = "solo_check"
    /\ pc' = "bootstrap"
    /\ events' = Append(events, "config")
    /\ UNCHANGED <<conf, genesisBlock, rawledger, ledgerKind, closed, it,
                   lastConfigTx, reads, scanResult, failedRead, serving,
                   policyManager, configHandlerMap, remaining,
                   configManager, consenter, accepted>>
    /\ UNCHANGED kvars

\* if lastConfigTx == nil { panic("No chain configuration found") }
SoloCheckConfig ==
    /\ pc = "solo_check"
    /\ \/ /\ lastConfigTx = Nil
          /\ Panic
          /\ UNCHANGED events
       \/ /\ lastConfigTx # Nil
          /\ pc' = "bootstrap"
          /\ events' = Append(events, "config")
          /\ UNCHANGED serving
    /\ UNCHANGED <<conf, genesisBlock, rawledger, ledgerKind, closed, it,
                   lastConfigTx, reads, scanResult, failedRead,
                   policyManager, configHandlerMap, remaining,
                   configManager, consenter, accepted>>
    /\ UNCHANGED kvars

(***************************************************************************)
(* bootstrapConfigManager                                                  *)
(***************************************************************************)
\* policies.NewManagerImpl(xxxCryptoHelper{}); make(map[...]configtx.Handler)
BootstrapBegin ==
    /\ pc = "bootstrap"
    /\ policyManager' = "policyManager"
    /\ configHandlerMap' = EmptyMap
    /\ remaining' = ConfigurationType
    /\ pc' = "bootstrap_loop"
    /\ UNCHANGED <<conf, genesisBlock, rawledger, ledgerKind, closed, it,
                   lastConfigTx, reads, scanResult, failedRead,
                   configManager, consenter, serving, accepted, events>>
    /\ UNCHANGED kvars

\* configtx.NewBytesHandler(): the object allocated in the iteration for rtype
NewBytesHandler(rtype) == [kind |-> "bytes", obj |-> rtype]

HandlerForAllPolicy(rtype, pm) == [kind |-> "policy", obj |-> pm]

\* switch rtype { case Configuration_Policy: policyManager;
\*                default: configtx.NewBytesHandler() }
HandlerFor(rtype, pm) ==
    IF rtype = "Policy" THEN [kind |-> "policy", obj |-> pm]
    ELSE NewBytesHandler(rtype)

\* one iteration of: for ctype := range Configuration_ConfigurationType_name
BootstrapRegister ==
    /\ pc = "bootstrap_loop"
    /\ \E ctype \in remaining :
          /\ configHandlerMap' =
                [t \in DOMAIN configHandlerMap \cup {ctype} |->
                    IF t = ctype THEN HandlerFor(ctype, policyManager)
                    ELSE configHandlerMap[t]]
          /\ remaining' = remaining \ {ctype}
    /\ UNCHANGED <<pc, conf, genesisBlock, rawledger, ledgerKind, closed, it,
                   lastConfigTx, reads, scanResult, failedRead,
                   policyManager, configManager, consenter, serving,
                   accepted, events>>
    /\ UNCHANGED kvars

\* configtx.NewConfigurationManager(lastConfigTx, policyManager,
\* configHandlerMap); panic on error
BootstrapNewManager ==
    /\ pc = "bootstrap_loop"
    /\ remaining = {}
    /\ \/ /\ configManager' = [built |-> TRUE, bootstrap |-> lastConfigTx,
                               policySource |-> policyManager,
                               handlers |-> configHandlerMap]
          /\ events' = Append(events, "manager")
          /\ pc' = "solo_new"
          /\ UNCHANGED serving
       \/ /\ Panic
          /\ UNCHANGED <<configManager, events>>
    /\ UNCHANGED <<conf, genesisBlock, rawledger, ledgerKind, closed, it,
                   lastConfigTx, reads, scanResult, failedRead,
                   policyManager, configHandlerMap, remaining,
                   consenter, accepted>>
    /\ UNCHANGED kvars

(***************************************************************************)
(* launchSolo, continued                                                   *)
(***************************************************************************)
\* _ = configManager; solo.New(queueSize, batchSize, maxWindowSize,
\* batchTimeout, rawledger, grpcServer): the manager is not handed over
SoloNew ==
    /\ pc = "solo_new"
    /\ consenter' = [kind |-> "solo", configManager |-> Nil]
    /\ events' = Append(events, "consenter")
    /\ pc' = "solo_serve"
    /\ UNCHANGED <<conf, genesisBlock, rawledger, ledgerKind, closed, it,
                   lastConfigTx, reads, scanResult, failedRead,
                   policyManager, configHandlerMap, remaining,
                   configManager, serving, accepted>>
    /\ UNCHANGED kvars

\* grpcServer.Serve(lis)
SoloServe ==
    /\ pc = "solo_serve"
    /\ serving' = TRUE
    /\ events' = Append(events, "serve")
    /\ pc' = "serving"
    /\ UNCHANGED <<conf, genesisBlock, rawledger, ledgerKind, closed, it,
                   lastConfigTx, reads, scanResult, failedRead,
                   policyManager, configHandlerMap, remaining,
                   configManager, consenter, accepted>>
    /\ UNCHANGED kvars

(***************************************************************************)
(* launchKafka                                                             *)
(***************************************************************************)
\* ordererSrv := kafka.New(conf); defer ordererSrv.Teardown()
KafkaNew ==
    /\ pc = "kafka_new"
    /\ consenter' = [kind |-> "kafka", configManager |-> Nil]
    /\ events' = Append(events, "consenter")
    /\ pc' = "kafka_listen"
    /\ UNCHANGED <<conf, genesisBlock, rawledger, ledgerKind, closed, it,
                   lastConfigTx, reads, scanResult, failedRead,
                   policyManager, configHandlerMap, remaining,
                   configManager, serving, accepted>>
    /\ UNCHANGED kvars

\* net.Listen; panic on error (the deferred Teardown runs)
KafkaListen ==
    /\ pc = "kafka_listen"
    /\ \/ /\ pc' = "kafka_serve"
          /\ events' = Append(events, "listen")
          /\ UNCHANGED <<serving, consenter>>
       \/ /\ Panic
          /\ consenter' = NoConsenter
          /\ UNCHANGED events
    /\ UNCHANGED <<conf, genesisBlock, rawledger, ledgerKind, closed, it,
                   lastConfigTx, reads, scanResult, failedRead,
                   policyManager, configHandlerMap, remaining,
                   configManager, accepted>>
    /\ UNCHANGED kvars

\* ab.RegisterAtomicBroadcastServer(rpcSrv, ordererSrv); go rpcSrv.Serve(lis)
KafkaServe ==
    /\ pc = "kafka_serve"
    /\ serving' = TRUE
    /\ events' = Append(events, "serve")
    /\ pc' = "serving"
    /\ UNCHANGED <<conf, genesisBlock, rawledger, ledgerKind, closed, it,
                   lastConfigTx, reads, scanResult, failedRead,
                   policyManager, configHandlerMap, remaining,
                   configManager, consenter, accepted>>
    /\ UNCHANGED kvars

\* for range signalChan { return }: SIGINT, the deferred Teardown runs
KafkaSignal ==
    /\ pc = "serving"
    /\ consenter.kind = "kafka"
    /\ pc' = "returned"
    /\ serving' = FALSE
    /\ consenter' = NoConsenter
    /\ UNCHANGED <<conf, genesisBlock, rawledger, ledgerKind, closed, it,
                   lastConfigTx, reads, scanResult, failedRead,
                   policyManager, configHandlerMap, remaining,
                   configManager, accepted, events>>
    /\ UNCHANGED kvars

(***************************************************************************)
(* Broadcast, as served by the consenter built above                       *)
(***************************************************************************)
\* the authorization check the consenter can make with what it was given
Authorized(e, mgr) ==
    IF mgr = Nil THEN TRUE
    ELSE VerifySignature(e.Data, "ids", e.Signature)

\* one envelope received on a Broadcast stream and handed to enqueue
Broadcast ==
    /\ pc = "serving"
    /\ serving
    /\ Len(accepted) < MaxEnvelopes
    /\ \E e \in Envelopes :
          /\ Authorized(e, consenter.configManager)
          /\ accepted' = Append(accepted,
                 [env |-> e, checkedBy |-> consenter.configManager])
    /\ UNCHANGED <<pc, conf, genesisBlock, rawledger, ledgerKind, closed, it,
                   lastConfigTx, reads, scanResult, failedRead,
                   policyManager, configHandlerMap, remaining,
                   configManager, consenter, serving, events>>
    /\ UNCHANGED kvars

Next ==
    \/ Main
    \/ SoloListen
    \/ SoloSelectBootstrapper
    \/ SoloGenesisBlock
    \/ SoloFileLedgerTemp
    \/ SoloFileLedger
    \/ SoloRamLedger
    \/ ScanBegin
    \/ ScanNext
    \/ ScanFail
    \/ ScanReturn
    \/ StoreTeardown
    \/ SoloCheckConfig
    \/ BootstrapBegin
    \/ BootstrapRegister
    \/ BootstrapNewManager
    \/ SoloNew
    \/ SoloServe
    \/ KafkaNew
    \/ KafkaListen
    \/ KafkaServe
    \/ KafkaSignal
    \/ Broadcast

Spec == Init /\ [][Next]_vars

\* retrieveConfiguration called on a ledger
ScanInit ==
    /\ pc = "retrieve"
    /\ conf = [OrdererType |-> "solo", GenesisMethod |-> "static",
               LedgerType |-> "file", Location |-> "/var/ledger"]
    /\ rawledger \in SeqsUpTo(BlockValues, MaxBlocks) \ {<<>>}
    /\ genesisBlock = rawledger[1]
    /\ ledgerKind = "file"
    /\ closed = FALSE
    /\ it = 0
    /\ lastConfigTx = Nil
    /\ reads = <<>>
    /\ scanResult = NoResult
    /\ failedRead = Nil
    /\ policyManager = Nil
    /\ configHandlerMap = EmptyMap
    /\ remaining = {}
    /\ configManager = NoManager
    /\ consenter = NoConsenter
    /\ serving = FALSE
    /\ accepted = <<>>
    /\ events = <<"listen", "genesis", "ledger:file">>
    /\ KInitIdle

ScanLoop ==
    \/ ScanBegin
    \/ ScanNext
    \/ ScanFail
    \/ ScanReturn
    \/ StoreTeardown

\* the goroutine running retrieveConfiguration keeps taking the branch of
\* its select that is ready
ScanStep == ScanNext \/ ScanFail \/ ScanReturn

SpecScanFair == ScanInit /\ [][ScanLoop]_vars /\ WF_vars(ScanStep)

(***************************************************************************)
(* Replicated-log consenter: ordering processes sharing one log, each      *)
(* cutting batches from what it reads back and appending Block2 blocks     *)
(***************************************************************************)
Procs == {1, 2}

\* message Block2 { bytes PreviousBlockHash = 1; repeated bytes Transactions = 2; }
Block2NoHash(prev, txs) == [PreviousBlockHash |-> 0, Transactions |-> txs]

Block2(prev, txs) == [PreviousBlockHash |-> prev, Transactions |-> txs]

RECURSIVE BytesHash(_)
BytesHash(txs) ==
    IF txs = <<>> THEN 1
    ELSE (BytesHash(SubSeq(txs, 1, Len(txs) - 1)) * 7 + txs[Len(txs)]) % 256

\* hash of a block: of its previous hash and its transactions
Hash(b) == (b.PreviousBlockHash * 31 + BytesHash(b.Transactions)) % 256

\* Ledger Store Append: the new block is chained to the last one
LedgerAppend(ledger, txs) ==
    Append(ledger, Block2(Hash(ledger[Len(ledger)]), txs))

RECURSIVE Flatten(_)
Flatten(ledger) ==
    IF ledger = <<>> THEN <<>>
    ELSE Flatten(SubSeq(ledger, 1, Len(ledger) - 1))
            \o ledger[Len(ledger)].Transactions

\* the serialized envelope producer p submits as its n-th
Tx(p, n) == p * 10 + n

KInit ==
    /\ pc = "serving"
    /\ conf = [OrdererType |-> "kafka", GenesisMethod |-> "static",
               LedgerType |-> "ram", Location |-> ""]
    /\ genesisBlock = Block(<<>>)
    /\ rawledger = <<>>
    /\ ledgerKind = "none"
    /\ closed = FALSE
    /\ it = 0
    /\ lastConfigTx = Nil
    /\ reads = <<>>
    /\ scanResult = NoResult
    /\ failedRead = Nil
    /\ policyManager = Nil
    /\ configHandlerMap = EmptyMap
    /\ remaining = {}
    /\ configManager = NoManager
    /\ consenter = [kind |-> "kafka", configManager |-> Nil]
    /\ serving = TRUE
    /\ accepted = <<>>
    /\ events = <<"consenter", "listen", "serve">>
    /\ KInitIdle

\* a locally accepted envelope is republished and lands in the shared log
KPublish(p) ==
    /\ published[p] < MaxPublish
    /\ Len(log) < MaxLog
    /\ log' = Append(log, Tx(p, published[p] + 1))
    /\ published' = [published EXCEPT ![p] = @ + 1]
    /\ UNCHANGED <<offset, batch, ledgers>>
    /\ UNCHANGED ovars

\* a publish that never lands in the log
KPublishLost(p) ==
    /\ published[p] < MaxPublish
    /\ published' = [published EXCEPT ![p] = @ + 1]
    /\ UNCHANGED <<log, offset, batch, ledgers>>
    /\ UNCHANGED ovars

\* process p reads the next log entry back and feeds the batch cutter;
\* the batch is cut when the message count is reached
KConsume(p) ==
    /\ offset[p] < Len(log)
    /\ offset' = [offset EXCEPT ![p] = @ + 1]
    /\ LET newBatch == Append(batch[p], log[offset[p] + 1])
       IN  IF Len(newBatch) >= MaxMessageCount
           THEN /\ ledgers' = [ledgers EXCEPT ![p] = LedgerAppend(@, newBatch)]
                /\ batch' = [batch EXCEPT ![p] = <<>>]
           ELSE /\ batch' = [batch EXCEPT ![p] = newBatch]
                /\ UNCHANGED ledgers
    /\ UNCHANGED <<log, published>>
    /\ UNCHANGED ovars

\* the batch deadline of process p elapses with a non-empty batch
KTimerFired(p) ==
    /\ batch[p] # <<>>
    /\ ledgers' = [ledgers EXCEPT ![p] = LedgerAppend(@, batch[p])]
    /\ batch' = [batch EXCEPT ![p] = <<>>]
    /\ UNCHANGED <<log, offset, published>>
    /\ UNCHANGED ovars

\* process p restarts: the uncut batch is lost and consumption resumes
\* after the offset of its last committed block
KRestart(p) ==
    /\ batch[p] # <<>>
    /\ batch' = [batch EXCEPT ![p] = <<>>]
    /\ offset' = [offset EXCEPT ![p] = Len(Flatten(ledgers[p]))]
    /\ UNCHANGED <<log, ledgers, published>>
    /\ UNCHANGED ovars

KNext ==
    \/ \E p \in Procs : KPublish(p)
    \/ \E p \in Procs : KPublishLost(p)
    \/ \E p \in Procs : KConsume(p)
    \/ \E p \in Procs : KTimerFired(p)
    \/ \E p \in Procs : KRestart(p)

SpecKafka == KInit /\ [][KNext]_vars

(***************************************************************************)
(* Properties                                                              *)
(***************************************************************************)
\* a configuration block: a configuration envelope alone in its block
IsConfigBlock(b) ==
    /\ Len(b.Messages) = 1
    /\ b.Messages[1].Data \in ConfigData

ConfigIndexes(l) == { i \in 1..Len(l) : IsConfigBlock(l[i]) }

MaxOf(S) == CHOOSE x \in S : \A y \in S : y <= x

LastConfiguration(l) ==
    IF ConfigIndexes(l) = {} THEN Nil
    ELSE Unmarshal(l[MaxOf(ConfigIndexes(l))].Messages[1].Data).msg

\* C1: when retrieveConfiguration returns from a ledger that holds a
\* configuration block, its result is the configuration envelope of the
\* highest-indexed configuration block, whatever single-transaction blocks
\* come before, between or after the configuration blocks.
C1_LastOneWins ==
    (scanResult.returned /\ ConfigIndexes(rawledger) # {}) =>
        scanResult.value = LastConfiguration(rawledger)

HasOneMessage(b) == Len(b.Messages) = 1

RECURSIVE ScanSingles(_)
ScanSingles(l) ==
    IF l = <<>> THEN Nil
    ELSE LET r == Unmarshal(l[Len(l)].Messages[1].Data)
         IN  IF r.err THEN ScanSingles(SubSeq(l, 1, Len(l) - 1)) ELSE r.msg

\* C2: a block whose message count is not one never changes the tracked
\* last configuration: during and after the scan the tracked value is what
\* scanning the ledger without those blocks gives.
C2_MultiMessageBlocksSkipped ==
    /\ pc = "scan" =>
          lastConfigTx = ScanSingles(SelectSeq(SubSeq(rawledger, 1, it), HasOneMessage))
    /\ scanResult.returned =>
          scanResult.value = ScanSingles(SelectSeq(rawledger, HasOneMessage))

C2_Witness ==
    /\ scanResult.returned
    /\ \E i, j \in 1..Len(rawledger) :
          /\ i < j
          /\ rawledger[i] = Block(<<Msg("cfgB")>>)
          /\ rawledger[j] = Block(<<Msg("cfgA"), Msg("tx")>>)
    /\ \E k \in 1..Len(rawledger) : rawledger[k] = Block(<<>>)
    /\ scanResult.value = "B"

\* C3: a consenter exists or the RPC server serves only after the bootstrap
\* scan returned a configuration transaction, for solo and for kafka.
C3_ServingRequiresConfiguration ==
    (consenter.kind # "none" \/ serving) =>
        (scanResult.returned /\ scanResult.value # Nil)

\* C4: every envelope the solo consenter accepted through Broadcast was
\* checked against the Configuration Manager built at start-up, and no
\* envelope failing the signature check was accepted.
C4_BroadcastAuthorized ==
    consenter.kind = "solo" =>
        \A i \in 1..Len(accepted) :
            /\ accepted[i].checkedBy # Nil
            /\ accepted[i].env.Signature = "good"

HandlersRegistered == (pc = "bootstrap_loop" /\ remaining = {}) \/ configManager.built

\* C5: once the registration loop of bootstrapConfigManager is over, every
\* ConfigurationType has a handler; Policy has the policy manager, which is
\* the policy source of the Configuration Manager; every other type has a
\* bytes handler that is not the policy manager.
C5_HandlerRegistration ==
    HandlersRegistered =>
        /\ DOMAIN configHandlerMap = ConfigurationType
        /\ configHandlerMap["Policy"] = [kind |-> "policy", obj |-> policyManager]
        /\ \A t \in ConfigurationType \ {"Policy"} :
              /\ configHandlerMap[t].kind = "bytes"
              /\ configHandlerMap[t].obj # policyManager
        /\ configManager.built =>
              /\ configManager.policySource = policyManager
              /\ configManager.handlers = configHandlerMap

C5_Witness ==
    /\ configManager.built
    /\ Cardinality(DOMAIN configManager.handlers) = Cardinality(ConfigurationType)

ScanInOrder ==
    /\ pc = "scan" =>
          /\ reads = [i \in 1..it |-> i]
          /\ (ENABLED ScanNext) \/ (ENABLED ScanFail) \/ (ENABLED ScanReturn)
    /\ scanResult.returned =>
          /\ reads = [i \in 1..Len(rawledger) |-> i]
          /\ ~scanResult.ready

\* C8: the scan reads the blocks one by one from the oldest, in increasing
\* order, always has a branch of its select to take, returns only when the
\* ready signal is not satisfied, having read every block once, and always
\* comes to an end.
C8_ScanComplete == []ScanInOrder /\ ((pc = "scan") ~> (pc # "scan"))

C8_Witness ==
    /\ scanResult.returned
    /\ Len(rawledger) >= 3
    /\ IsConfigBlock(rawledger[1])
    /\ Len(reads) = Len(rawledger)

\* C9: after a read of the scan failed the process has panicked: the scan
\* returned nothing, no Configuration Manager was built, no consenter was
\* constructed and nothing is served.
C9_FailedReadAborts ==
    failedRead # Nil =>
        /\ pc = "panicked"
        /\ ~scanResult.returned
        /\ ~configManager.built
        /\ consenter.kind = "none"
        /\ ~serving
        /\ accepted = <<>>

C9_Witness ==
    /\ failedRead = "SERVICE_UNAVAILABLE"
    /\ closed
    /\ lastConfigTx # Nil
    /\ it < Len(rawledger)

SoloSteps ==
    << "listen", "genesis",
       IF conf.LedgerType = "file" THEN "ledger:file" ELSE "ledger:ram",
       "config", "manager", "consenter", "serve" >>

\* C10: in solo mode the consenter exists and the server serves only after
\* listen, genesis block, one ledger (file iff the ledger type is "file"),
\* a configuration found by the scan and a Configuration Manager built, in
\* this order.
C10_SoloStartupOrder ==
    /\ consenter.kind = "solo" =>
          /\ SubSeq(events, 1, 6) = SubSeq(SoloSteps, 1, 6)
          /\ ledgerKind = (IF conf.LedgerType = "file" THEN "file" ELSE "ram")
          /\ scanResult.returned
          /\ lastConfigTx # Nil
          /\ failedRead = Nil
          /\ configManager.built
          /\ configManager.bootstrap = lastConfigTx
    /\ serving /\ conf.OrdererType = "solo" =>
          /\ consenter.kind = "solo"
          /\ events = SoloSteps

C10_Witness ==
    /\ serving
    /\ consenter.kind = "solo"
    /\ conf.LedgerType = ""
    /\ ledgerKind = "ram"

IsPrefix(s, t) == Len(s) <= Len(t) /\ SubSeq(t, 1, Len(s)) = s

\* C6: any two processes consuming the shared log assemble the same block
\* sequence (one is a prefix of the other, and they are equal at equal
\* offsets), and a process commits only what it has read back from the log.
C6_TotalOrderAgreement ==
    /\ \A p, q \in Procs :
          /\ IsPrefix(ledgers[p], ledgers[q]) \/ IsPrefix(ledgers[q], ledgers[p])
          /\ (offset[p] = offset[q] /\ batch[p] = batch[q]) => ledgers[p] = ledgers[q]
    /\ \A p \in Procs :
          IsPrefix(Flatten(ledgers[p]) \o batch[p], log)

HashChain ==
    \A p \in Procs : \A i \in 2..Len(ledgers[p]) :
        ledgers[p][i].PreviousBlockHash = Hash(ledgers[p][i - 1])

AppendOnly ==
    \A p \in Procs :
        /\ IsPrefix(ledgers[p], ledgers'[p])
        /\ Len(ledgers'[p]) <= Len(ledgers[p]) + 1

====
